---------------------------- MODULE Spec2Model ----------------------------
(***************************************************************************)
(* A model of texporter (src/main.go): a Telegram bot that, after a menu   *)
(* choice, a date choice and a confirmation, exports the time entries of   *)
(* every configured Redmine project into that project's Telegram channel,  *)
(* one message per contributor.                                            *)
(*                                                                         *)
(* Three specifications share the module:                                  *)
(*   Spec          the update loop of botRunAndServe with the export run   *)
(*                 of exportTimeEntries (one action per handled update);   *)
(*   SpecAggregate the body of exportTimeEntries for one project, on every *)
(*                 list of fetched entries up to MaxEntries;               *)
(*   SpecDate      prevWorkDate and newDateKeyboard on every "today" of a  *)
(*                 calendar window;                                        *)
(*   SpecExport    exportTimeEntries on every date and either isTest.      *)
(***************************************************************************)
EXTENDS Integers, Sequences, FiniteSets, TLC

VARIABLES
    ProjectList,  \* Texporter.ProjectList: the configured projects, in order
    state,        \* Texporter.Model.state: "", "type", "date" or "ready"
    isTest,       \* Texporter.Model.isTest
    date,         \* Texporter.Model.date
    running,      \* FALSE once a panic has ended the process
    calls,        \* the outbound calls made while handling the last update
    history,      \* the updates handled in the current session (observer)
    timeEntries,  \* SpecAggregate: the entries one fetch returned
    messages,     \* SpecAggregate: the map user id -> message text built
    sent,         \* SpecAggregate: the sendTextToChannel calls made, in order
    aggPc,        \* SpecAggregate: "fetched" before the export, "sent" after
    today,        \* SpecDate: the calendar date of time.Now()
    offset,       \* SpecDate: the argument of the last prevWorkDate call
    resolved,     \* SpecDate: what that call returned
    keyboard      \* SpecDate: the button data of the last date keyboard built

vars == <<ProjectList, state, isTest, date, running, calls, history,
          timeEntries, messages, sent, aggPc, today, offset, resolved,
          keyboard>>

sessionVars == <<ProjectList, state, isTest, date, running, calls, history>>
aggregateVars == <<timeEntries, messages, sent, aggPc>>
dateVars == <<today, offset, resolved, keyboard>>

----------------------------------------------------------------------------
(* Bounds *)

\* the longest configured project list
MaxProjects == 2
\* the longest list of time entries one fetch returns in SpecAggregate
MaxEntries == 3
\* prevWorkDate is called with offsets -MaxOffset..MaxOffset
MaxOffset == 3
\* "today" ranges over DateWindow + 1 consecutive days from FirstToday
DateWindow == 100

----------------------------------------------------------------------------
(* Text.  A text is a sequence of lines, a line a sequence of tokens: the   *)
(* "\n" of a format string ends a line, its verbs and literals are tokens.  *)

DigitChars == <<"0", "1", "2", "3", "4", "5", "6", "7", "8", "9">>

\* the decimal digits of n >= 0, most significant first (%v of an integer)
RECURSIVE FormatInt(_)
FormatInt(n) ==
    IF n < 10 THEN <<DigitChars[n + 1]>>
    ELSE FormatInt(n \div 10) \o <<DigitChars[(n % 10) + 1]>>

----------------------------------------------------------------------------
(* Configuration and tracker data *)

ProjectIDs == {"p1", "p2", "p3"}

ProjectName(id) ==
    CASE id = "p1" -> "Alpha" [] id = "p2" -> "Beta" [] OTHER -> "Gamma"
ProjectChatID(id) ==
    CASE id = "p1" -> 101 [] id = "p2" -> 102 [] OTHER -> 103
ProjectTestChatID(id) ==
    CASE id = "p1" -> 901 [] id = "p2" -> 902 [] OTHER -> 903
ProjectTracker(id) ==
    CASE id = "p1" -> "ALPHA" [] id = "p2" -> "BETA" [] OTHER -> "GAMMA"

\* type Project
Project(id, export) ==
    [ID |-> id, Name |-> ProjectName(id), ChatID |-> ProjectChatID(id),
     TestChatID |-> ProjectTestChatID(id), Tracker |-> ProjectTracker(id),
     Export |-> export]

Projects == {Project(id, export) : id \in ProjectIDs, export \in BOOLEAN}

RECURSIVE SeqsUpTo(_, _)
SeqsUpTo(S, n) ==
    IF n = 0 THEN {<<>>}
    ELSE LET shorter == SeqsUpTo(S, n - 1)
         IN  shorter \cup {Append(s, x) : s \in shorter, x \in S}

\* the project lists config.json may hold: up to MaxProjects projects, each
\* project (ID) configured once, in any order and with any Export flags
ProjectLists ==
    {l \in SeqsUpTo(Projects, MaxProjects) :
        \A i, j \in DOMAIN l : l[i].ID = l[j].ID => i = j}

UserIDs == {1, 2}
UserName(id) == IF id = 1 THEN "alice" ELSE "bob"

\* type TimeEntryResponse, the fields exportTimeEntries reads
TimeEntry(user, activity, issue, comments, spentOn) ==
    [User |-> [ID |-> user, Name |-> UserName(user)],
     Activity |-> [Name |-> activity],
     Issue |-> [ID |-> issue],
     Comments |-> comments,
     SpentOn |-> spentOn]

Dates == {"2024-06-06", "2024-06-07"}

\* what the tracker has recorded for a project on a date
TrackerRecords(project, d) ==
    CASE project = "p1" /\ d = "2024-06-07" ->
            <<TimeEntry(1, "dev", 5, "fix bug", d),
              TimeEntry(1, "review", 7, "add test", d)>>
      [] project = "p1" /\ d = "2024-06-06" ->
            <<TimeEntry(1, "dev", 5, "fix bug", d),
              TimeEntry(2, "review", 12, "refactor", d),
              TimeEntry(1, "dev", 7, "add test", d)>>
      [] project = "p2" /\ d = "2024-06-07" ->
            <<TimeEntry(2, "dev", 5, "fix bug", d),
              TimeEntry(1, "review", 7, "add test", d)>>
      [] project = "p3" /\ d \in Dates ->
            <<TimeEntry(2, "dev", 12, "refactor", d)>>
      [] OTHER -> <<>>


----------------------------------------------------------------------------
(* Outbound calls.  Every call the program makes is recorded as one record: *)
(* idx is the position in ProjectList of the project whose loop iteration   *)
(* made the call (0 for a call of the update loop itself), ok its outcome.  *)

Call(op, idx, project, chat, d, user, text, ok) ==
    [op |-> op, idx |-> idx, project |-> project, chat |-> chat, date |-> d,
     user |-> user, text |-> text, ok |-> ok]

\* t.TelegramBot.Request(callback): the acknowledgement of a callback query
RequestCall(chat, data, ok) ==
    Call("Request", 0, "", chat, "", 0, <<<<data>>>>, ok)

\* t.TelegramBot.Send(msg) of the update loop: a prompt or the final notice
SendCall(chat, text, ok) ==
    Call("Send", 0, "", chat, "", 0, text, ok)

\* t.getListTimeEntries(date, p.ID)
FetchCall(idx, p, d, ok) ==
    Call("getListTimeEntries", idx, p.ID, 0, d, 0, <<>>, ok)

\* t.sendTextToChannel(chatID, mess), for the message of one user
ChannelCall(idx, p, chatID, user, mess, ok) ==
    Call("sendTextToChannel", idx, p.ID, chatID, "", user, mess, ok)

----------------------------------------------------------------------------
(* getListTimeEntries *)

\* The request fails (it cannot be built or sent, the status is not 2xx, the
\* body cannot be read or decoded) or succeeds; every failing return carries
\* an empty list with the error.
\* mutant: a failing return carries the entries decoded so far
getListTimeEntriesKeepsEntries(d, project, fails) ==
    [timeEntries |-> TrackerRecords(project, d), err |-> fails]

getListTimeEntries(d, project, fails) ==
    IF fails
    THEN [timeEntries |-> <<>>, err |-> TRUE]
    ELSE [timeEntries |-> TrackerRecords(project, d), err |-> FALSE]

----------------------------------------------------------------------------
(* exportTimeEntries: the aggregation *)

\* "%v #%v: %v\n" of p.Tracker, te.Issue.ID, te.Comments
IssueLine(p, te) ==
    <<p.Tracker, "#">> \o FormatInt(te.Issue.ID) \o <<":", te.Comments>>

\* the text of the first entry seen for a user
FirstEntryText(p, te) ==
    << <<te.SpentOn>>, <<te.User.Name>>, <<te.Activity.Name>>, IssueLine(p, te) >>

\* mutant: a later entry is given the text of a first entry
NextEntryTextRepeatsHeader(p, te) ==
    << <<te.SpentOn>>, <<te.User.Name>>, <<te.Activity.Name>>, IssueLine(p, te) >>

\* the text appended for a later entry of a user already seen
NextEntryText(p, te) ==
    << <<te.Activity.Name>>, IssueLine(p, te) >>

\* mutant: the map is keyed by the issue of the entry
AddEntryKeyedByIssue(msgs, p, te) ==
    IF te.Issue.ID \notin DOMAIN msgs
    THEN (te.Issue.ID :> FirstEntryText(p, te)) @@ msgs
    ELSE [msgs EXCEPT ![te.Issue.ID] = @ \o NextEntryText(p, te)]

\* one iteration of the loop over timeEntries
AddEntry(msgs, p, te) ==
    IF te.User.ID \notin DOMAIN msgs
    THEN (te.User.ID :> FirstEntryText(p, te)) @@ msgs
    ELSE [msgs EXCEPT ![te.User.ID] = @ \o NextEntryText(p, te)]

RECURSIVE AggregateLoop(_, _, _)
AggregateLoop(msgs, p, tes) ==
    IF tes = <<>> THEN msgs
    ELSE AggregateLoop(AddEntry(msgs, p, Head(tes)), p, Tail(tes))

\* messages := make(map[int64]string), then the loop over timeEntries
Aggregate(p, tes) == AggregateLoop([u \in {} |-> <<>>], p, tes)

----------------------------------------------------------------------------
(* exportTimeEntries: the sends *)

\* the orders in which a range over a map with key set S may visit its keys
RangeOrders(S) ==
    {o \in [1..Cardinality(S) -> S] : \A i, j \in DOMAIN o : o[i] = o[j] => i = j}

\* mutant: the loop ends at the first send that fails
SendLoopStopsOnError(idx, p, chatID, msgs) ==
    {LET all == [k \in DOMAIN o |->
                    ChannelCall(idx, p, chatID, o[k], msgs[o[k]], okf[o[k]])]
         failed == {k \in DOMAIN all : ~all[k].ok}
     IN  IF failed = {} THEN all
         ELSE SubSeq(all, 1, CHOOSE k \in failed : \A j \in failed : k <= j) :
        o \in RangeOrders(DOMAIN msgs), okf \in [DOMAIN msgs -> BOOLEAN]}

\* the loop over messages: one sendTextToChannel per key, each of which may
\* fail; the set of call sequences it can produce
SendLoop(idx, p, chatID, msgs) ==
    {[k \in DOMAIN o |-> ChannelCall(idx, p, chatID, o[k], msgs[o[k]], okf[o[k]])] :
        o \in RangeOrders(DOMAIN msgs), okf \in [DOMAIN msgs -> BOOLEAN]}

\* mutant: the two chats are taken the wrong way round
ChatIDForSwapped(p, test) == IF test THEN p.ChatID ELSE p.TestChatID

ChatIDFor(p, test) == IF test THEN p.TestChatID ELSE p.ChatID

\* mutant: the Export flag is not looked at
ExportProjectIgnoresFlag(idx, p, d, test) ==
    UNION {
        LET r == getListTimeEntries(d, p.ID, fails)
        IN  {<<FetchCall(idx, p, d, ~r.err)>> \o s :
                s \in SendLoop(idx, p, ChatIDFor(p, test), Aggregate(p, r.timeEntries))}
        : fails \in BOOLEAN}

\* mutant: a failed fetch is tried once more
ExportProjectRetries(idx, p, d, test) ==
    IF ~p.Export THEN {<<>>}
    ELSE UNION {
        LET r == getListTimeEntries(d, p.ID, fails)
            again == IF r.err THEN <<FetchCall(idx, p, d, FALSE)>> ELSE <<>>
        IN  {again \o <<FetchCall(idx, p, d, ~r.err)>> \o s :
                s \in SendLoop(idx, p, ChatIDFor(p, test), Aggregate(p, r.timeEntries))}
        : fails \in BOOLEAN}

\* one iteration of the loop over t.ProjectList: the call sequences it can
\* produce for the project p at position idx
ExportProject(idx, p, d, test) ==
    IF ~p.Export THEN {<<>>}
    ELSE UNION {
        LET r == getListTimeEntries(d, p.ID, fails)
        IN  {<<FetchCall(idx, p, d, ~r.err)>> \o s :
                s \in SendLoop(idx, p, ChatIDFor(p, test), Aggregate(p, r.timeEntries))}
        : fails \in BOOLEAN}

\* mutant: the run returns at the first failed fetch
RECURSIVE ExportFromReturnsOnError(_, _, _, _)
ExportFromReturnsOnError(idx, list, d, test) ==
    IF idx > Len(list) THEN {<<>>}
    ELSE {IF \E k \in DOMAIN a : a[k].op = "getListTimeEntries" /\ ~a[k].ok
          THEN a ELSE a \o b :
              a \in ExportProject(idx, list[idx], d, test),
              b \in ExportFromReturnsOnError(idx + 1, list, d, test)}

RECURSIVE ExportFrom(_, _, _, _)
ExportFrom(idx, list, d, test) ==
    IF idx > Len(list) THEN {<<>>}
    ELSE {a \o b : a \in ExportProject(idx, list[idx], d, test),
                   b \in ExportFrom(idx + 1, list, d, test)}

\* the call sequences one run of exportTimeEntries(date, isTest) can produce
exportTimeEntries(list, d, test) == ExportFrom(1, list, d, test)

----------------------------------------------------------------------------
(* botRunAndServe: the updates and the observer *)

\* the chats updates come from
Chats == {11, 12}

\* the data a pressed button carries: the buttons of typesKeyboard, of
\* readyKeyboard and of a date keyboard
CallbackData == {"export", "notification", "yes", "no"} \cup Dates

\* the three things an export needs supplied, in order
Steps == <<"menuChoice", "targetDate", "confirmation">>

\* a handled update as the observer records it: from is Model.state when the
\* update arrived
Update(kind, chat, data) ==
    [kind |-> kind, chat |-> chat, data |-> data, from |-> state]

\* The observer keeps the messages and callbacks handled since the session
\* last was in "type" or "" when one arrived: that update and those after it.
Observe(u) ==
    history' = IF state \in {"", "type"} THEN <<u>> ELSE Append(history, u)

TypesPrompt == << <<"typesKeyboard">> >>
DatePrompt == << <<"dateKeyboard">> >>
DoneNotice == << <<"done">> >>

\* the names of the projects with Export set, in list order
RECURSIVE projectsForExport(_)
projectsForExport(list) ==
    IF list = <<>> THEN <<>>
    ELSE IF Head(list).Export
         THEN <<Head(list).Name>> \o projectsForExport(Tail(list))
         ELSE projectsForExport(Tail(list))

ReadyPrompt(list, d) == << <<"readyKeyboard">>, projectsForExport(list), <<d>> >>

\* t.Model = model{}
ResetModel ==
    /\ state' = ""
    /\ isTest' = FALSE
    /\ date' = ""

----------------------------------------------------------------------------
(* botRunAndServe: one action per handled update *)

\* mutant: a message opens the menu only when no session is under way
HandleMessageWhenIdle(chat) ==
    /\ running
    /\ Observe(Update("message", chat, ""))
    /\ state' = IF state = "" THEN "type" ELSE state
    /\ \E ok \in BOOLEAN :
         /\ calls' = <<SendCall(chat, TypesPrompt, ok)>>
         /\ running' = ok
    /\ UNCHANGED <<ProjectList, isTest, date>>

\* update.Message != nil
HandleMessage(chat) ==
    /\ running
    /\ Observe(Update("message", chat, ""))
    /\ state' = "type"
    /\ \E ok \in BOOLEAN :
         /\ calls' = <<SendCall(chat, TypesPrompt, ok)>>
         /\ running' = ok
    /\ UNCHANGED <<ProjectList, isTest, date>>

\* mutant: a failed acknowledgement is passed over
CallbackRequestFailsGoesOn(chat, data) ==
    /\ running
    /\ Observe(Update("callback", chat, data))
    /\ calls' = <<RequestCall(chat, data, FALSE)>>
    /\ UNCHANGED <<ProjectList, state, isTest, date, running>>

\* update.CallbackQuery != nil and the acknowledgement fails: panic
CallbackRequestFails(chat, data) ==
    /\ running
    /\ Observe(Update("callback", chat, data))
    /\ calls' = <<RequestCall(chat, data, FALSE)>>
    /\ running' = FALSE
    /\ UNCHANGED <<ProjectList, state, isTest, date>>

\* mutant: "notification" is handled like "export"
CallbackInTypeNotifies(chat, data) ==
    /\ running
    /\ state = "type"
    /\ Observe(Update("callback", chat, data))
    /\ IF data \in {"export", "notification"}
       THEN /\ state' = "date"
            /\ isTest' = FALSE
            /\ \E ok \in BOOLEAN :
                 /\ calls' = <<RequestCall(chat, data, TRUE),
                               SendCall(chat, DatePrompt, ok)>>
                 /\ running' = ok
            /\ UNCHANGED <<ProjectList, date>>
       ELSE /\ calls' = <<RequestCall(chat, data, TRUE)>>
            /\ UNCHANGED <<ProjectList, state, isTest, date, running>>

\* mutant: "export" selects the test channels
CallbackInTypeSetsTest(chat, data) ==
    /\ running
    /\ state = "type"
    /\ Observe(Update("callback", chat, data))
    /\ IF data = "export"
       THEN /\ state' = "date"
            /\ isTest' = TRUE
            /\ \E ok \in BOOLEAN :
                 /\ calls' = <<RequestCall(chat, data, TRUE),
                               SendCall(chat, DatePrompt, ok)>>
                 /\ running' = ok
            /\ UNCHANGED <<ProjectList, date>>
       ELSE /\ calls' = <<RequestCall(chat, data, TRUE)>>
            /\ UNCHANGED <<ProjectList, state, isTest, date, running>>

\* case "type"
CallbackInType(chat, data) ==
    /\ running
    /\ state = "type"
    /\ Observe(Update("callback", chat, data))
    /\ IF data = "export"
       THEN /\ state' = "date"
            /\ isTest' = FALSE
            /\ \E ok \in BOOLEAN :
                 /\ calls' = <<RequestCall(chat, data, TRUE),
                               SendCall(chat, DatePrompt, ok)>>
                 /\ running' = ok
            /\ UNCHANGED <<ProjectList, date>>
       ELSE /\ calls' = <<RequestCall(chat, data, TRUE)>>
            /\ UNCHANGED <<ProjectList, state, isTest, date, running>>

\* mutant: the data of the callback is not recorded
CallbackInDateKeepsDate(chat, data) ==
    /\ running
    /\ state = "date"
    /\ Observe(Update("callback", chat, data))
    /\ state' = "ready"
    /\ \E ok \in BOOLEAN :
         /\ calls' = <<RequestCall(chat, data, TRUE),
                       SendCall(chat, ReadyPrompt(ProjectList, data), ok)>>
         /\ running' = ok
    /\ UNCHANGED <<ProjectList, isTest, date>>

\* mutant: only the chat that chose "export" may choose the date
CallbackInDateOfOwnChat(chat, data) ==
    /\ running
    /\ state = "date"
    /\ Observe(Update("callback", chat, data))
    /\ IF chat = history[1].chat
       THEN /\ state' = "ready"
            /\ date' = data
            /\ \E ok \in BOOLEAN :
                 /\ calls' = <<RequestCall(chat, data, TRUE),
                               SendCall(chat, ReadyPrompt(ProjectList, data), ok)>>
                 /\ running' = ok
            /\ UNCHANGED <<ProjectList, isTest>>
       ELSE /\ calls' = <<RequestCall(chat, data, TRUE)>>
            /\ UNCHANGED <<ProjectList, state, isTest, date, running>>

\* case "date"
CallbackInDate(chat, data) ==
    /\ running
    /\ state = "date"
    /\ Observe(Update("callback", chat, data))
    /\ state' = "ready"
    /\ date' = data
    /\ \E ok \in BOOLEAN :
         /\ calls' = <<RequestCall(chat, data, TRUE),
                       SendCall(chat, ReadyPrompt(ProjectList, data), ok)>>
         /\ running' = ok
    /\ UNCHANGED <<ProjectList, isTest>>

\* mutant: the notice is sent only after a run without a failure
CallbackInReadyNoticeOnSuccess(chat, data) ==
    /\ running
    /\ state = "ready"
    /\ Observe(Update("callback", chat, data))
    /\ IF data = "yes"
       THEN \E run \in exportTimeEntries(ProjectList, date, isTest), ok \in BOOLEAN :
                LET failed == \E k \in DOMAIN run : ~run[k].ok
                IN  /\ calls' = <<RequestCall(chat, data, TRUE)>> \o run
                                  \o (IF failed THEN <<>>
                                      ELSE <<SendCall(chat, DoneNotice, ok)>>)
                    /\ running' = (failed \/ ok)
                    /\ IF failed \/ ok THEN ResetModel
                       ELSE UNCHANGED <<state, isTest, date>>
       ELSE /\ calls' = <<RequestCall(chat, data, TRUE)>>
            /\ ResetModel
            /\ UNCHANGED running
    /\ UNCHANGED ProjectList

\* mutant: the model is reset only after an export
CallbackInReadyKeepsModel(chat, data) ==
    /\ running
    /\ state = "ready"
    /\ Observe(Update("callback", chat, data))
    /\ IF data = "yes"
       THEN \E run \in exportTimeEntries(ProjectList, date, isTest), ok \in BOOLEAN :
                /\ calls' = <<RequestCall(chat, data, TRUE)>> \o run
                              \o <<SendCall(chat, DoneNotice, ok)>>
                /\ running' = ok
                /\ IF ok THEN ResetModel ELSE UNCHANGED <<state, isTest, date>>
       ELSE /\ calls' = <<RequestCall(chat, data, TRUE)>>
            /\ UNCHANGED <<state, isTest, date, running>>
    /\ UNCHANGED ProjectList

\* case "ready"
CallbackInReady(chat, data) ==
    /\ running
    /\ state = "ready"
    /\ Observe(Update("callback", chat, data))
    /\ IF data = "yes"
       THEN \E run \in exportTimeEntries(ProjectList, date, isTest), ok \in BOOLEAN :
                /\ calls' = <<RequestCall(chat, data, TRUE)>> \o run
                              \o <<SendCall(chat, DoneNotice, ok)>>
                /\ running' = ok
                /\ IF ok THEN ResetModel ELSE UNCHANGED <<state, isTest, date>>
       ELSE /\ calls' = <<RequestCall(chat, data, TRUE)>>
            /\ ResetModel
            /\ UNCHANGED running
    /\ UNCHANGED ProjectList

\* mutant: "yes" is acted upon without a session
CallbackInIdleExports(chat, data) ==
    /\ running
    /\ state = ""
    /\ Observe(Update("callback", chat, data))
    /\ IF data = "yes"
       THEN \E run \in exportTimeEntries(ProjectList, date, isTest) :
                calls' = <<RequestCall(chat, data, TRUE)>> \o run
                           \o <<SendCall(chat, DoneNotice, TRUE)>>
       ELSE calls' = <<RequestCall(chat, data, TRUE)>>
    /\ UNCHANGED <<ProjectList, state, isTest, date, running>>

\* the switch matches no case: Model.state is ""
CallbackInIdle(chat, data) ==
    /\ running
    /\ state = ""
    /\ Observe(Update("callback", chat, data))
    /\ calls' = <<RequestCall(chat, data, TRUE)>>
    /\ UNCHANGED <<ProjectList, state, isTest, date, running>>

\* update.CallbackQuery != nil
HandleCallback(chat, data) ==
    \/ CallbackRequestFails(chat, data)
    \/ CallbackInType(chat, data)
    \/ CallbackInDate(chat, data)
    \/ CallbackInReady(chat, data)
    \/ CallbackInIdle(chat, data)

\* an update that is neither a message nor a callback query
HandleOther(chat) ==
    /\ running
    /\ calls' = <<>>
    /\ UNCHANGED <<ProjectList, state, isTest, date, running, history>>

\* NewTexporter: the configuration is read, t.Model = model{}
Init ==
    /\ ProjectList \in ProjectLists
    /\ state = ""
    /\ isTest = FALSE
    /\ date = ""
    /\ running = TRUE
    /\ calls = <<>>
    /\ history = <<>>
    /\ timeEntries = <<>>
    /\ messages = <<>>
    /\ sent = <<>>
    /\ aggPc = "fetched"
    /\ today = <<2024, 6, 10>>
    /\ offset = 0
    /\ resolved = <<>>
    /\ keyboard = <<>>

Next ==
    \/ \E chat \in Chats : HandleMessage(chat) /\ UNCHANGED <<aggregateVars, dateVars>>
    \/ \E chat \in Chats, data \in CallbackData :
         HandleCallback(chat, data) /\ UNCHANGED <<aggregateVars, dateVars>>
    \/ \E chat \in Chats : HandleOther(chat) /\ UNCHANGED <<aggregateVars, dateVars>>

Spec == Init /\ [][Next]_vars

----------------------------------------------------------------------------
(* SpecAggregate: the body of exportTimeEntries for one project (from the   *)
(* fetch's return to the last send), on every list of fetched entries.      *)

\* the entries a fetch may return
EntryPool ==
    {TimeEntry(u, w[1], w[2], w[3], "2024-06-07") :
        u \in UserIDs,
        w \in {<<"dev", 5, "fix bug">>, <<"review", 7, "add test">>,
               <<"dev", 12, "refactor">>}}

AggregateProject == Project("p1", TRUE)

InitAggregate ==
    /\ ProjectList = <<AggregateProject>>
    /\ state = "ready"
    /\ isTest = FALSE
    /\ date = "2024-06-07"
    /\ running = TRUE
    /\ calls = <<>>
    /\ history = <<>>
    /\ timeEntries \in SeqsUpTo(EntryPool, MaxEntries)
    /\ messages = <<>>
    /\ sent = <<>>
    /\ aggPc = "fetched"
    /\ today = <<2024, 6, 10>>
    /\ offset = 0
    /\ resolved = <<>>
    /\ keyboard = <<>>

\* the map is built from timeEntries, then every message of it is sent
ExportEntries ==
    /\ aggPc = "fetched"
    /\ messages' = Aggregate(AggregateProject, timeEntries)
    /\ sent' \in SendLoop(1, AggregateProject,
                          ChatIDFor(AggregateProject, isTest), messages')
    /\ aggPc' = "sent"
    /\ UNCHANGED timeEntries

NextAggregate == ExportEntries /\ UNCHANGED <<sessionVars, dateVars>>

SpecAggregate == InitAggregate /\ [][NextAggregate]_vars

----------------------------------------------------------------------------
(* The calendar of package time, as prevWorkDate uses it.  A date is        *)
(* <<year, month, day>>; a day number counts days from 0001-01-01, a Monday *)
(* (as is the first day of package time's absolute epoch, whose year is     *)
(* also one more than a multiple of 400).  The time of day and the time     *)
(* zone are left out: AddDate with days only keeps them.                    *)

daysPer400Years == 365 * 400 + 97
daysPer100Years == 365 * 100 + 24
daysPer4Years == 365 * 4 + 1

\* daysBefore[m] is the number of days of a non-leap year before month m + 1
daysBefore == <<31, 59, 90, 120, 151, 181, 212, 243, 273, 304, 334, 365>>
DaysBeforeMonth(m) == IF m = 1 THEN 0 ELSE daysBefore[m - 1]

isLeap(year) == year % 4 = 0 /\ (year % 100 # 0 \/ year % 400 = 0)

\* time.Date: the day number of year-month-day, the day not being kept
\* within its month (AddDate passes day + days)
DayNumber(year, month, day) ==
    LET y == year - 1
        d0 == daysPer400Years * (y \div 400)
        y1 == y % 400
        d1 == d0 + daysPer100Years * (y1 \div 100)
        y2 == y1 % 100
        d2 == d1 + daysPer4Years * (y2 \div 4)
        y3 == y2 % 4
        d3 == d2 + 365 * y3
        d4 == d3 + DaysBeforeMonth(month)
        d5 == IF isLeap(year) /\ month >= 3 THEN d4 + 1 ELSE d4
    IN  d5 + day - 1

\* Time.date: the year, month and day of a day number
DateOf(abs) ==
    LET n400 == abs \div daysPer400Years
        r400 == abs - daysPer400Years * n400
        q100 == r400 \div daysPer100Years
        n100 == q100 - (q100 \div 4)
        r100 == r400 - daysPer100Years * n100
        n4 == r100 \div daysPer4Years
        r4 == r100 - daysPer4Years * n4
        q1 == r4 \div 365
        n1 == q1 - (q1 \div 4)
        yday == r4 - 365 * n1
        year == 400 * n400 + 100 * n100 + 4 * n4 + n1 + 1
        leapDay == isLeap(year) /\ yday = 31 + 29 - 1
        day == IF isLeap(year) /\ yday > 31 + 29 - 1 THEN yday - 1 ELSE yday
        m0 == day \div 31
        end == daysBefore[m0 + 1]
        month == IF day >= end THEN m0 + 2 ELSE m0 + 1
        begin == IF day >= end THEN end ELSE DaysBeforeMonth(m0 + 1)
    IN  IF leapDay THEN <<year, 2, 29>> ELSE <<year, month, day - begin + 1>>

\* Time.Weekday: 0 is Sunday, 1 is Monday
Weekday(t) == (DayNumber(t[1], t[2], t[3]) + 1) % 7
Monday == 1

\* Time.AddDate(0, 0, days)
AddDate(t, days) == DateOf(DayNumber(t[1], t[2], t[3] + days))

\* the decimal digits of n, left-padded with zeros to the given width
RECURSIVE Pad(_, _)
Pad(digits, width) ==
    IF Len(digits) >= width THEN digits ELSE Pad(<<"0">> \o digits, width)

\* Time.Format("2006-01-02"): the characters of the formatted date
Format(t) ==
    Pad(FormatInt(t[1]), 4) \o <<"-">> \o Pad(FormatInt(t[2]), 2)
        \o <<"-">> \o Pad(FormatInt(t[3]), 2)

\* mutant: Monday is treated like every other day
prevWorkDateEveryDayAlike(now, off) == Format(AddDate(now, off - 1))

\* detect last work date before today, if offset != 0 - detect 'last work
\* date minus offset'
prevWorkDate(now, off) ==
    IF Weekday(now) = Monday
    THEN Format(AddDate(now, off - 3))
    ELSE Format(AddDate(now, off - 1))

----------------------------------------------------------------------------
(* SpecDate: prevWorkDate on every today of the window and every offset.    *)

FirstToday == DayNumber(2023, 12, 18)

InitDate ==
    /\ ProjectList = <<>>
    /\ state = ""
    /\ isTest = FALSE
    /\ date = ""
    /\ running = TRUE
    /\ calls = <<>>
    /\ history = <<>>
    /\ timeEntries = <<>>
    /\ messages = <<>>
    /\ sent = <<>>
    /\ aggPc = "fetched"
    /\ today \in {DateOf(FirstToday + k) : k \in 0..DateWindow}
    /\ offset = 0
    /\ resolved = <<>>
    /\ keyboard = <<>>

CallPrevWorkDate(off) ==
    /\ offset' = off
    /\ resolved' = prevWorkDate(today, off)
    /\ UNCHANGED <<today, keyboard>>

\* mutant: the five dates start at today
newDateKeyboardFromToday(now) == [k \in 1..5 |-> Format(AddDate(now, 1 - k))]

\* the data of the five buttons of the date keyboard, top row first
newDateKeyboard(now) == [k \in 1..5 |-> Format(AddDate(now, 0 - k))]

CallNewDateKeyboard ==
    /\ keyboard' = newDateKeyboard(today)
    /\ UNCHANGED <<today, offset, resolved>>

NextDate ==
    \/ \E off \in (0 - MaxOffset)..MaxOffset :
         CallPrevWorkDate(off) /\ UNCHANGED <<sessionVars, aggregateVars>>
    \/ CallNewDateKeyboard /\ UNCHANGED <<sessionVars, aggregateVars>>

SpecDate == InitDate /\ [][NextDate]_vars

----------------------------------------------------------------------------
(* Properties of Spec: what the formulas read off the observer *)

Last(q) == q[Len(q)]

FetchOp == "getListTimeEntries"
ChannelOp == "sendTextToChannel"

\* the positions in calls of the calls op made for the project at position i
CallsOf(op, i) == {k \in DOMAIN calls : calls[k].op = op /\ calls[k].idx = i}

\* the last update handled was the callback data arriving in state from, and
\* its acknowledgement succeeded
Handled(data, from) ==
    /\ history # <<>>
    /\ Last(history).kind = "callback"
    /\ Last(history).data = data
    /\ Last(history).from = from
    /\ calls # <<>>
    /\ calls[1].op = "Request"
    /\ calls[1].ok

\* the last update handled ran the export pipeline: it fetched, sent to a
\* channel or sent the notice that ends a run
ExportRan ==
    \E k \in DOMAIN calls :
        \/ calls[k].op \in {FetchOp, ChannelOp}
        \/ calls[k].op = "Send" /\ calls[k].text = DoneNotice

Eligible == {i \in DOMAIN ProjectList : ProjectList[i].Export}

FetchFailed(i) == \E k \in CallsOf(FetchOp, i) : ~calls[k].ok

\* the contributors of the entries a list holds
Contributors(tes) == {tes[k].User.ID : k \in DOMAIN tes}

\* C1: a "yes" handled in state "ready" fetches exactly once for every
\* configured project with Export set, with that project's id, whether the
\* fetch fails or not, and never for a project without Export, wherever the
\* projects stand in the list.
C1_FetchOncePerExportedProject ==
    Handled("yes", "ready") =>
        \A i \in DOMAIN ProjectList :
            /\ Cardinality(CallsOf(FetchOp, i)) = IF ProjectList[i].Export THEN 1 ELSE 0
            /\ \A k \in CallsOf(FetchOp, i) : calls[k].project = ProjectList[i].ID

\* a run over two exported projects in which the first fetch failed
C1_Witness ==
    /\ Handled("yes", "ready")
    /\ Len(ProjectList) = 2
    /\ Eligible = {1, 2}
    /\ FetchFailed(1)
    /\ ~FetchFailed(2)

\* C2: no fetch and no channel send is ever made for a project without
\* Export: every such call is made for a list entry with Export set and
\* carries no id of a project without Export.
C2_NoCallForUnexportedProject ==
    \A k \in DOMAIN calls :
        calls[k].op \in {FetchOp, ChannelOp} =>
            /\ calls[k].idx \in Eligible
            /\ calls[k].project = ProjectList[calls[k].idx].ID
            /\ \A i \in DOMAIN ProjectList :
                   ~ProjectList[i].Export => calls[k].project # ProjectList[i].ID

\* a run over a list that starts with a project without Export and in which
\* the other project was fetched and sent for
C2_Witness ==
    /\ Handled("yes", "ready")
    /\ Len(ProjectList) = 2
    /\ Eligible = {2}
    /\ CallsOf(FetchOp, 2) # {}
    /\ CallsOf(ChannelOp, 2) # {}

\* C3: a "no" handled in state "ready" leaves the session idle with the
\* selection discarded and makes no fetch and no channel send.
C3_NoCancels ==
    Handled("no", "ready") =>
        /\ state = ""
        /\ date = ""
        /\ isTest = FALSE
        /\ \A k \in DOMAIN calls : calls[k].op \notin {FetchOp, ChannelOp}
        /\ ~ExportRan

\* a "no" handled after a date had been recorded for a list with a project
\* to export
C3_Witness ==
    /\ Handled("no", "ready")
    /\ Len(history) = 3
    /\ history[2].data \in Dates
    /\ Eligible # {}

\* C4: whenever the export pipeline runs, the updates handled since the
\* session last was in "type" are exactly an "export" callback handled in
\* "type", a callback handled in "date" and a "yes" callback handled in
\* "ready", in that order.
C4_ExportNeedsThreeSteps ==
    ExportRan =>
        /\ Len(history) = Len(Steps)
        /\ \A k \in DOMAIN history : history[k].kind = "callback"
        /\ history[1].data = "export" /\ history[1].from = "type"
        /\ history[2].from = "date"
        /\ history[3].data = "yes" /\ history[3].from = "ready"

\* a run that fetched and sent
C4_Witness ==
    /\ ExportRan
    /\ \E k \in DOMAIN calls : calls[k].op = FetchOp
    /\ \E k \in DOMAIN calls : calls[k].op = ChannelOp

\* C5: in a run in which the fetch of an exported project A failed, every
\* other exported project B is fetched once, and when that fetch succeeded
\* every contributor of B's entries is sent to exactly once, whether B stands
\* before or after A.
C5_FailedFetchDoesNotStopOthers ==
    Handled("yes", "ready") =>
        \A a, b \in Eligible :
            (a # b /\ FetchFailed(a)) =>
                /\ Cardinality(CallsOf(FetchOp, b)) = 1
                /\ ~FetchFailed(b) =>
                     \A f \in CallsOf(FetchOp, b) :
                       \A u \in Contributors(TrackerRecords(ProjectList[b].ID, calls[f].date)) :
                         Cardinality({k \in CallsOf(ChannelOp, b) : calls[k].user = u}) = 1

\* the first project's fetch failed and the second project's two
\* contributors were sent to
C5_Witness ==
    /\ Handled("yes", "ready")
    /\ Eligible = {1, 2}
    /\ FetchFailed(1)
    /\ ~FetchFailed(2)
    /\ Cardinality(CallsOf(ChannelOp, 2)) = 2

\* C6: in a run, a project whose fetch returned an error is sent nothing.
C6_FailedFetchSendsNothing ==
    Handled("yes", "ready") =>
        \A i \in Eligible : FetchFailed(i) => CallsOf(ChannelOp, i) = {}

\* the fetch failed for a project the tracker has entries of on that date,
\* while another project was sent for
C6_Witness ==
    /\ Handled("yes", "ready")
    /\ \E i \in Eligible :
         /\ FetchFailed(i)
         /\ \A f \in CallsOf(FetchOp, i) :
              TrackerRecords(ProjectList[i].ID, calls[f].date) # <<>>
         /\ \E j \in Eligible : j # i /\ CallsOf(ChannelOp, j) # {}

----------------------------------------------------------------------------
(* Properties of SpecAggregate *)

\* the entries of contributor u, in the order the tracker returned them
EntriesOf(u) == SelectSeq(timeEntries, LAMBDA te : te.User.ID = u)

\* the line "trackerLabel #issueId: comment" of an entry
TrackerLine(te) ==
    <<AggregateProject.Tracker, "#">> \o FormatInt(te.Issue.ID)
        \o <<":", te.Comments>>

\* the header of a digest: date, contributor, activity, then the tracker line
HeaderOf(te) ==
    << <<te.SpentOn>>, <<te.User.Name>>, <<te.Activity.Name>>, TrackerLine(te) >>

\* the digest of entries whose continuations are the tracker line alone
RECURSIVE LinesOnly(_)
LinesOnly(tes) ==
    IF tes = <<>> THEN <<>>
    ELSE <<TrackerLine(Head(tes))>> \o LinesOnly(Tail(tes))

\* the digest of entries whose continuations are the activity name and then
\* the tracker line
RECURSIVE ActivityAndLines(_)
ActivityAndLines(tes) ==
    IF tes = <<>> THEN <<>>
    ELSE << <<Head(tes).Activity.Name>>, TrackerLine(Head(tes)) >>
             \o ActivityAndLines(Tail(tes))

\* C7: the send loop attempts exactly one send for every message of the map,
\* with that message as its text, whichever of the sends fail.
C7_OneSendPerDigest ==
    aggPc = "sent" =>
        /\ Len(sent) = Cardinality(DOMAIN messages)
        /\ \A u \in DOMAIN messages :
             Cardinality({k \in DOMAIN sent :
                            sent[k].user = u /\ sent[k].text = messages[u]}) = 1

\* two contributors, the first send failed and the second was still made
C7_Witness ==
    /\ aggPc = "sent"
    /\ Len(sent) = 2
    /\ ~sent[1].ok
    /\ sent[2].ok
    /\ sent[1].user # sent[2].user

\* C8 as stated: the message of a contributor is the header of the first
\* entry followed, for every later entry, by the tracker line alone.
C8_ContinuationIsTrackerLineOnly ==
    aggPc = "sent" =>
        \A u \in DOMAIN messages :
            messages[u] = HeaderOf(Head(EntriesOf(u))) \o LinesOnly(Tail(EntriesOf(u)))

\* C8 amended: the message of a contributor is the header of the first entry
\* (date, contributor name, activity name, tracker line) followed, for every
\* later entry in tracker order, by the activity name of that entry and then
\* its tracker line; the date and the contributor name are not repeated.
C8_ContinuationIsActivityAndTrackerLine ==
    aggPc = "sent" =>
        \A u \in DOMAIN messages :
            /\ messages[u] =
                 HeaderOf(Head(EntriesOf(u))) \o ActivityAndLines(Tail(EntriesOf(u)))
            /\ \A k \in 3..Len(messages[u]) :
                 /\ messages[u][k] # <<Head(EntriesOf(u)).SpentOn>>
                 /\ messages[u][k] # <<Head(EntriesOf(u)).User.Name>>

\* a contributor with two entries, on issues 5 and 7
C8_Witness ==
    /\ aggPc = "sent"
    /\ \E u \in DOMAIN messages :
         /\ Len(EntriesOf(u)) = 2
         /\ EntriesOf(u)[1].Issue.ID = 5
         /\ EntriesOf(u)[2].Issue.ID = 7
         /\ Len(messages[u]) = 6

\* C9: the map has exactly one key for every contributor of the entries: no
\* key and no send for an empty list, two keys for two contributors.
C9_OneKeyPerContributor ==
    aggPc = "sent" =>
        /\ DOMAIN messages = Contributors(timeEntries)
        /\ timeEntries = <<>> => (DOMAIN messages = {} /\ sent = <<>>)
        /\ Cardinality(Contributors(timeEntries)) = 2 =>
             Cardinality(DOMAIN messages) = 2

\* three entries of two contributors, on the same issue
C9_Witness ==
    /\ aggPc = "sent"
    /\ Len(timeEntries) = 3
    /\ Cardinality(Contributors(timeEntries)) = 2
    /\ Cardinality({timeEntries[k].Issue.ID : k \in DOMAIN timeEntries}) = 1
    /\ Cardinality(DOMAIN messages) = 2

----------------------------------------------------------------------------
(* Properties of SpecDate *)

DaysIn(year, month) ==
    IF month = 2 THEN (IF isLeap(year) THEN 29 ELSE 28)
    ELSE IF month \in {4, 6, 9, 11} THEN 30 ELSE 31

\* the calendar day after, and the one before, a date
NextDay(t) ==
    IF t[3] < DaysIn(t[1], t[2]) THEN <<t[1], t[2], t[3] + 1>>
    ELSE IF t[2] < 12 THEN <<t[1], t[2] + 1, 1>>
    ELSE <<t[1] + 1, 1, 1>>

PrevDay(t) ==
    IF t[3] > 1 THEN <<t[1], t[2], t[3] - 1>>
    ELSE IF t[2] > 1 THEN <<t[1], t[2] - 1, DaysIn(t[1], t[2] - 1)>>
    ELSE <<t[1] - 1, 12, 31>>

\* the date n days after t (before it, when n is negative)
RECURSIVE ShiftDays(_, _)
ShiftDays(t, n) ==
    IF n = 0 THEN t
    ELSE IF n > 0 THEN ShiftDays(NextDay(t), n - 1)
    ELSE ShiftDays(PrevDay(t), n + 1)

\* t and the same weekday of the following weeks
RECURSIVE Weekly(_, _)
Weekly(t, weeks) ==
    IF weeks = 0 THEN {t} ELSE {t} \cup Weekly(ShiftDays(t, 7), weeks - 1)

\* 2023-12-18 was a Monday (2024-06-10 is 25 weeks after it)
Mondays == Weekly(<<2023, 12, 18>>, (DateWindow \div 7) + 1)

IsMonday(t) == t \in Mondays

DigitValue(c) == CHOOSE v \in 0..9 : DigitChars[v + 1] = c

\* the date a string of the form YYYY-MM-DD names
ParseDate(str) ==
    << 1000 * DigitValue(str[1]) + 100 * DigitValue(str[2])
         + 10 * DigitValue(str[3]) + DigitValue(str[4]),
       10 * DigitValue(str[6]) + DigitValue(str[7]),
       10 * DigitValue(str[9]) + DigitValue(str[10]) >>

----------------------------------------------------------------------------
(* Working days *)

\* 2023-12-09 was a Saturday and 2023-12-10 a Sunday
Saturdays == Weekly(<<2023, 12, 9>>, (DateWindow \div 7) + 3)
Sundays == Weekly(<<2023, 12, 10>>, (DateWindow \div 7) + 3)

\* a Monday-to-Friday date
IsWorkingDay(t) == t \notin Saturdays /\ t \notin Sundays

\* the most recent working day strictly before t
PreviousWorkingDay(t) ==
    IF IsWorkingDay(PrevDay(t)) THEN PrevDay(t)
    ELSE IF IsWorkingDay(ShiftDays(t, 0 - 2)) THEN ShiftDays(t, 0 - 2)
    ELSE ShiftDays(t, 0 - 3)

\* C11: prevWorkDate(0) is the most recent Monday-to-Friday date strictly
\* before today, whatever weekday today is.
C11_PrevWorkDateIsWorkingDay ==
    (resolved # <<>> /\ offset = 0) =>
        /\ IsWorkingDay(ParseDate(resolved))
        /\ ParseDate(resolved) = PreviousWorkingDay(today)

----------------------------------------------------------------------------
(* Further properties of Spec *)

\* the positions in calls of the notice that ends an export run
Notices == {k \in DOMAIN calls : calls[k].op = "Send" /\ calls[k].text = DoneNotice}

\* C12: a "yes" handled in state "ready" sends the completion notice exactly
\* once, as the last call of the handler (after every fetch and every channel
\* send), whether or not fetches or channel sends failed and also when no
\* project is exported.
C12_NoticeOnceAfterRun ==
    Handled("yes", "ready") =>
        /\ Cardinality(Notices) = 1
        /\ Notices = {Len(calls)}
        /\ \A k \in DOMAIN calls :
             calls[k].op \in {FetchOp, ChannelOp} => \A n \in Notices : k < n

\* a run in which one fetch and one channel send failed
C12_Witness ==
    /\ Handled("yes", "ready")
    /\ Eligible = {1, 2}
    /\ FetchFailed(1)
    /\ \E k \in CallsOf(ChannelOp, 2) : ~calls[k].ok
    /\ Notices # {}

----------------------------------------------------------------------------
(* SpecExport: exportTimeEntries(date, isTest) as a function of its         *)
(* arguments, on every project list, every date and either value of isTest. *)

InitExport ==
    /\ ProjectList \in ProjectLists
    /\ state = "ready"
    /\ isTest \in BOOLEAN
    /\ date \in Dates
    /\ running = TRUE
    /\ calls = <<>>
    /\ history = <<>>
    /\ timeEntries = <<>>
    /\ messages = <<>>
    /\ sent = <<>>
    /\ aggPc = "fetched"
    /\ today = <<2024, 6, 10>>
    /\ offset = 0
    /\ resolved = <<>>
    /\ keyboard = <<>>

\* t.exportTimeEntries(t.Model.date, t.Model.isTest)
ExportRun ==
    /\ calls' \in exportTimeEntries(ProjectList, date, isTest)
    /\ UNCHANGED <<ProjectList, state, isTest, date, running, history>>

NextExport == ExportRun /\ UNCHANGED <<aggregateVars, dateVars>>

SpecExport == InitExport /\ [][NextExport]_vars

\* C13: every channel send of an export run is addressed to the TestChatID
\* of the project it is made for when isTest is true and to its ChatID when
\* isTest is false.
C13_DestinationFollowsIsTest ==
    \A k \in DOMAIN calls :
        calls[k].op = ChannelOp =>
            /\ calls[k].idx \in Eligible
            /\ calls[k].chat = IF isTest THEN ProjectList[calls[k].idx].TestChatID
                               ELSE ProjectList[calls[k].idx].ChatID

\* a run with isTest true that sent for two projects
C13_Witness ==
    /\ isTest
    /\ CallsOf(ChannelOp, 1) # {}
    /\ CallsOf(ChannelOp, 2) # {}

----------------------------------------------------------------------------
(* Failures of the messaging platform *)

\* the call is an acknowledgement or a reply of the update loop and failed
PlatformFailure(c) == c.op \in {"Request", "Send"} /\ ~c.ok

\* a failed platform call is the last call the process makes and ends it; a
\* failed acknowledgement is the only call of its handler; the process ends
\* in no other way
FailureEndsProcess ==
    /\ \A k \in DOMAIN calls :
         PlatformFailure(calls[k]) => (~running /\ k = Len(calls))
    /\ (calls # <<>> /\ calls[1].op = "Request" /\ ~calls[1].ok) =>
         (Len(calls) = 1 /\ ~ExportRan)
    /\ ~running => (calls # <<>> /\ PlatformFailure(Last(calls)))

\* C14: a failed acknowledgement or reply is fatal: it is the last call made,
\* and once the process has ended no update is handled, the session does not
\* change and no call is made; a failed acknowledgement of "yes" ends the
\* process before the export runs.
C14_PlatformFailureIsFatal ==
    /\ []FailureEndsProcess
    /\ [][~running => UNCHANGED <<state, isTest, date, running, calls, history>>]_vars

\* the acknowledgement of a "yes" in state "ready" failed, with a project to
\* export: the process has ended having made no other call
C14_Witness ==
    /\ ~running
    /\ state = "ready"
    /\ Eligible # {}
    /\ Len(calls) = 1
    /\ calls[1].op = "Request"
    /\ calls[1].text = << <<"yes">> >>

----------------------------------------------------------------------------
(* The date keyboard *)

\* the dates the buttons of the keyboard carry
Offered == {ParseDate(keyboard[k]) : k \in DOMAIN keyboard}

\* C15 as stated: the five dates offered are Monday-to-Friday dates, the five
\* most recent working days before today.
C15_OffersWorkingDays ==
    keyboard # <<>> =>
        /\ Len(keyboard) = 5
        /\ \A t \in Offered : IsWorkingDay(t)

\* C15 amended: the five dates offered are the five calendar days before
\* today, today - 1 first and today - 5 last, weekend days included; they
\* are all Monday-to-Friday dates only when today is a Saturday.
C15_OffersPrecedingCalendarDays ==
    keyboard # <<>> =>
        /\ Len(keyboard) = 5
        /\ \A k \in 1..5 : ParseDate(keyboard[k]) = ShiftDays(today, 0 - k)
        /\ (\A t \in Offered : IsWorkingDay(t)) <=> today \in Saturdays

\* the keyboard built on a Monday: it offers the Sunday and the Saturday
\* before
C15_Witness ==
    /\ keyboard # <<>>
    /\ IsMonday(today)
    /\ ParseDate(keyboard[1]) \in Sundays
    /\ ParseDate(keyboard[2]) \in Saturdays

----------------------------------------------------------------------------
(* The session record *)

\* C16: a callback handled in state "date" leaves the session in "ready" with
\* its data recorded as the date, and every fetch of the export run the next
\* "yes" starts carries the data of that callback.
C16_FetchCarriesChosenDate ==
    /\ (history # <<>> /\ Last(history).kind = "callback"
          /\ Last(history).from = "date"
          /\ calls # <<>> /\ calls[1].op = "Request" /\ calls[1].ok) =>
         (state = "ready" /\ date = Last(history).data)
    /\ Handled("yes", "ready") =>
         \A k \in DOMAIN calls :
             calls[k].op = FetchOp => calls[k].date = history[2].data

\* a run whose fetches carry 2024-06-06, the date chosen in its session
C16_Witness ==
    /\ Handled("yes", "ready")
    /\ history[2].data = "2024-06-06"
    /\ \E k \in DOMAIN calls : calls[k].op = FetchOp /\ calls[k].date = "2024-06-06"


\* C17: handling "notification" in state "type" changes neither the state nor
\* the date nor isTest and makes no call but the acknowledgement: no prompt,
\* no fetch, no channel send.
C17_NotificationDoesNothing ==
    [][(/\ running
        /\ state = "type"
        /\ calls' # <<>>
        /\ calls'[1].op = "Request"
        /\ calls'[1].text = << <<"notification">> >>)
       => (/\ state' = state
           /\ date' = date
           /\ isTest' = isTest
           /\ Len(calls') = 1)]_vars

\* "notification" handled in "type" with a date left from an abandoned
\* selection
C17_Witness ==
    /\ Handled("notification", "type")
    /\ state = "type"
    /\ date \in Dates
    /\ Len(calls) = 1

\* the state a handled update leaves the session in, by the state it arrived
\* in, its kind and its data
StateAfter(from, kind, data) ==
    IF kind = "message" THEN "type"
    ELSE IF from = "type" THEN (IF data = "export" THEN "date" ELSE "type")
    ELSE IF from = "date" THEN "ready"
    ELSE ""

\* the recorded date after a handled update, likewise
DateAfter(from, d, kind, data) ==
    IF kind = "message" THEN d
    ELSE IF from = "date" THEN data
    ELSE IF from = "ready" THEN ""
    ELSE d

\* C18: there is one session for all chats: what handling a message or a
\* callback does to the session, and whether it runs the export, is decided
\* by the session state and the kind and data of the update, whichever chat
\* it comes from; the chat only addresses the acknowledgement and the reply.
C18_OneSessionForAllChats ==
    [][(running /\ running' /\ calls' # <<>>) =>
          LET u == Last(history')
          IN  /\ u.from = state
              /\ state' = StateAfter(state, u.kind, u.data)
              /\ date' = DateAfter(state, date, u.kind, u.data)
              /\ isTest' = FALSE
              /\ ExportRan' <=>
                   (u.kind = "callback" /\ state = "ready" /\ u.data = "yes")
              /\ \A k \in DOMAIN calls' :
                   calls'[k].op \in {"Request", "Send"} => calls'[k].chat = u.chat]_vars

\* an export run whose date was chosen in another chat than "export" was and
\* whose "yes" came from another chat than the date
C18_Witness ==
    /\ Handled("yes", "ready")
    /\ Len(history) = 3
    /\ history[1].chat # history[2].chat
    /\ history[2].chat # history[3].chat
    /\ \E k \in DOMAIN calls : calls[k].op = ChannelOp

\* the last update handled was a text message
MessageHandled ==
    /\ history # <<>>
    /\ Last(history).kind = "message"
    /\ calls # <<>>
    /\ calls[1].op = "Send"
    /\ calls[1].text = TypesPrompt

\* C19: a text message handled in any state leaves the session in "type" and
\* makes one call, the menu sent to its chat; and an export runs only in a
\* session that holds no message: after the message come an "export" handled
\* in "type" and a callback handled in "date" before the "yes".
C19_MessageRestartsSession ==
    /\ MessageHandled =>
         /\ state = "type"
         /\ Len(calls) = 1
         /\ calls[1].chat = Last(history).chat
         /\ ~ExportRan
    /\ ExportRan =>
         /\ \A k \in DOMAIN history : history[k].kind # "message"
         /\ \E i, j \in DOMAIN history :
              /\ i < j
              /\ history[i].data = "export" /\ history[i].from = "type"
              /\ history[j].from = "date"

\* a message handled in "ready", the date chosen before it still recorded
C19_Witness ==
    /\ MessageHandled
    /\ Last(history).from = "ready"
    /\ state = "type"
    /\ date \in Dates

\* C20: isTest is false in every reachable state, so every channel send goes
\* to the ChatID of its project and none to its TestChatID.
C20_NeverTest ==
    /\ isTest = FALSE
    /\ \A k \in DOMAIN calls :
         calls[k].op = ChannelOp =>
             /\ calls[k].chat = ProjectList[calls[k].idx].ChatID
             /\ calls[k].chat # ProjectList[calls[k].idx].TestChatID

\* a run that sent to the channels of two projects
C20_Witness ==
    /\ Handled("yes", "ready")
    /\ CallsOf(ChannelOp, 1) # {}
    /\ CallsOf(ChannelOp, 2) # {}

============================================================================
